---- MODULE Spec2Model ----
(***************************************************************************)
(* AION wallet SDK: the wallet module (generateWallet, importFromMnemonic, *)
(* validateAddress) and the platform client AIONClient of src/src/index.ts *)
(* as a state machine.                                                     *)
(*                                                                         *)
(* Strings that the code inspects character by character (addresses,       *)
(* public keys) are sequences of one-character strings; byte arrays are    *)
(* sequences of 0..255.  JavaScript values that may be null or undefined   *)
(* are tagged records (JsNull, JsUndefined, JsStr).                        *)
(***************************************************************************)
EXTENDS Integers, Sequences, FiniteSets, Bags, TLC

VARIABLES
  username,   \* AIONClient.username, set by the constructor
  wallet,     \* AIONClient.wallet: JsNull or JsObj(wallet)
  claimCode,  \* AIONClient.claimCode: JsNull, JsUndefined or JsStr(code)
  calls,      \* the bag of async calls in flight on the client
  done,       \* the call that completed in the last step (NoCall if none did)
  lastStart,  \* history: the payload of the latest successful start-claim
  history     \* the wallet-module functions applied directly, with results

vars == <<username, wallet, claimCode, calls, done, lastStart, history>>

clientVars == <<username, wallet, claimCode, calls, done, lastStart>>

----------------------------------------------------------------------------
(* JavaScript values *)

JsNull == [t |-> "null", v |-> ""]

JsUndefined == [t |-> "undefined", v |-> ""]

JsStr(s) == [t |-> "string", v |-> s]

JsArr(s) == [t |-> "array", v |-> s]

JsObj(r) == [t |-> "object", v |-> r]

\* ToBoolean: null, undefined and the empty string are falsy; arrays and
\* objects are truthy.
Truthy(x) ==
  \/ x.t \in {"array", "object"}
  \/ x.t = "string" /\ Len(x.v) > 0

\* obj.k: undefined when the member is absent.
Get(obj, k) == IF k \in DOMAIN obj THEN obj[k] ELSE JsUndefined

\* obj with obj.k = v assigned.
Put(obj, k, v) ==
  [ x \in DOMAIN obj \cup {k} |-> IF x = k THEN v ELSE obj[x] ]

\* JSON.stringify of an object: members whose value is undefined are left
\* out, null members are kept.
JSONstringify(obj) ==
  [ k \in { x \in DOMAIN obj : obj[x].t # "undefined" } |-> obj[k] ]

\* String(x) as a template literal `${x}` renders it.
JsToString(x) ==
  CASE x.t = "null" -> "null"
    [] x.t = "undefined" -> "undefined"
    [] OTHER -> x.v

----------------------------------------------------------------------------
(* Base58 (bs58 / base-x), on digit sequences because keys are 256 bits *)

ALPHABET ==
  << "1","2","3","4","5","6","7","8","9",
     "A","B","C","D","E","F","G","H","J","K","L","M","N","P","Q","R","S",
     "T","U","V","W","X","Y","Z",
     "a","b","c","d","e","f","g","h","i","j","k","m","n","o","p","q","r",
     "s","t","u","v","w","x","y","z" >>

Range(s) == { s[i] : i \in 1..Len(s) }

Reverse(s) == [ i \in 1..Len(s) |-> s[Len(s) + 1 - i] ]

Repeat(x, n) == [ i \in 1..n |-> x ]

\* Index of a character in ALPHABET, counted from 0.
DigitOf(c) == (CHOOSE i \in 1..Len(ALPHABET) : ALPHABET[i] = c) - 1

\* Number of leading elements of s equal to x.
RECURSIVE LeadingCount(_, _)
LeadingCount(s, x) ==
  IF s = <<>> \/ s[1] # x THEN 0 ELSE 1 + LeadingCount(Tail(s), x)

\* digits * m + carry, on little-endian digits in base `base` (the inner
\* carry loop of base-x's encode and decode).
RECURSIVE MulAdd(_, _, _, _)
MulAdd(digits, base, m, carry) ==
  IF digits = <<>>
  THEN IF carry = 0 THEN <<>>
       ELSE <<carry % base>> \o MulAdd(<<>>, base, m, carry \div base)
  ELSE LET t == digits[1] * m + carry
       IN  <<t % base>> \o MulAdd(Tail(digits), base, m, t \div base)

\* Convert big-endian digits in base `from` to little-endian digits in `to`.
RECURSIVE Convert(_, _, _, _)
Convert(src, from, to, acc) ==
  IF src = <<>> THEN acc
  ELSE Convert(Tail(src), from, to, MulAdd(acc, to, from, src[1]))

bs58encode(bytes) ==
  LET zeroes == LeadingCount(bytes, 0)
      rest   == SubSeq(bytes, zeroes + 1, Len(bytes))
      b58    == Reverse(Convert(rest, 256, 58, <<>>))
  IN  Repeat(ALPHABET[1], zeroes) \o [ i \in 1..Len(b58) |-> ALPHABET[b58[i] + 1] ]

\* bs58.decode throws on a character outside ALPHABET.
bs58decode(str) ==
  IF \E i \in 1..Len(str) : str[i] \notin Range(ALPHABET)
  THEN [threw |-> TRUE, bytes |-> <<>>]
  ELSE LET zeroes == LeadingCount(str, ALPHABET[1])
           rest   == SubSeq(str, zeroes + 1, Len(str))
           digs   == [ i \in 1..Len(rest) |-> DigitOf(rest[i]) ]
           b256   == Reverse(Convert(digs, 58, 256, <<>>))
       IN  [threw |-> FALSE, bytes |-> Repeat(0, zeroes) \o b256]

----------------------------------------------------------------------------
(* validateAddress *)

MinAddressLength == 32

MaxAddressLength == 44

AddressBytes == 32

\* The character class of /^[1-9A-HJ-NP-Za-km-z]+$/.
Base58Class ==
  { "1","2","3","4","5","6","7","8","9" }
  \cup { "A","B","C","D","E","F","G","H" }
  \cup { "J","K","L","M","N" }
  \cup { "P","Q","R","S","T","U","V","W","X","Y","Z" }
  \cup { "a","b","c","d","e","f","g","h","i","j","k" }
  \cup { "m","n","o","p","q","r","s","t","u","v","w","x","y","z" }

base58RegexTest(address) ==
  Len(address) >= 1 /\ \A i \in 1..Len(address) : address[i] \in Base58Class

\* validateAddressTry with the upper length limit exclusive.
validateAddressTry_ExclusiveMax(address) ==
  IF Len(address) < MinAddressLength \/ Len(address) >= MaxAddressLength
  THEN [threw |-> FALSE, value |-> FALSE]
  ELSE IF ~base58RegexTest(address)
  THEN [threw |-> FALSE, value |-> FALSE]
  ELSE LET decoded == bs58decode(address)
       IN  IF decoded.threw
           THEN [threw |-> TRUE, value |-> FALSE]
           ELSE [threw |-> FALSE, value |-> Len(decoded.bytes) = AddressBytes]

\* The body of the try block: a returned boolean, or an exception.
validateAddressTry(address) ==
  IF Len(address) < MinAddressLength \/ Len(address) > MaxAddressLength
  THEN [threw |-> FALSE, value |-> FALSE]
  ELSE IF ~base58RegexTest(address)
  THEN [threw |-> FALSE, value |-> FALSE]
  ELSE LET decoded == bs58decode(address)
       IN  IF decoded.threw
           THEN [threw |-> TRUE, value |-> FALSE]
           ELSE [threw |-> FALSE, value |-> Len(decoded.bytes) = AddressBytes]

\* try { ... } catch { return false }: the outcome of a call of
\* validateAddress, which the catch makes a returned boolean in every case.
validateAddressCall(address) ==
  LET r == validateAddressTry(address)
  IN  IF r.threw THEN [threw |-> FALSE, value |-> FALSE] ELSE r

validateAddress(address) == validateAddressCall(address).value

----------------------------------------------------------------------------
(* Key derivation.  bip39, ed25519-hd-key and Keypair are external: a       *)
(* mnemonic is the record of what bip39 checks about a phrase, a seed and a *)
(* derived key are the terms that name their inputs, and the key bytes are  *)
(* a fixed stand-in function of such a term.                                *)

\* The values the random source of generateMnemonic is taken to yield.
Entropies == {0, 1}

\* bip39.generateMnemonic(strength) on the random entropy drawn: a phrase of
\* (strength + strength/32) / 11 words of the wordlist with a valid checksum.
generateMnemonic(strength, entropy) ==
  [ words    |-> (strength + strength \div 32) \div 11,
    ent      |-> entropy,
    checksum |-> TRUE,
    wordlist |-> TRUE ]

\* bip39.validateMnemonic: word count a multiple of 3 within 12..24, every
\* word in the wordlist, checksum bits matching.
validateMnemonic(mnemonic) ==
  /\ mnemonic.words % 3 = 0
  /\ mnemonic.words >= 12 /\ mnemonic.words <= 24
  /\ mnemonic.wordlist
  /\ mnemonic.checksum

\* bip39.mnemonicToSeedSync(mnemonic): PBKDF2 of the phrase, empty passphrase.
mnemonicToSeedSync(mnemonic) == [phrase |-> mnemonic, passphrase |-> ""]

\* seed.toString('hex')
toHex(seed) == [hex |-> seed]

\* ed25519-hd-key derivePath(path, hexSeed): the key at `path` under the seed.
derivePath(path, hexSeed) == [key |-> [path |-> path, seed |-> hexSeed.hex]]

\* A number that tells apart the derived keys the model can build.
KeyNumber(key) ==
  LET m == key.seed.phrase
  IN  (IF key.path = "m/44'/501'/0'/0'" THEN 0 ELSE 97)
      + (IF key.seed.passphrase = "" THEN 0 ELSE 53)
      + m.words + 31 * m.ent

\* Stand-in for the 32 bytes of a derived key and of its ed25519 public key.
KeyBytes(key) == [ i \in 1..32 |-> (KeyNumber(key) * (7 * i + 3) + i) % 256 ]

PublicKeyBytes(key) ==
  [ i \in 1..32 |-> IF i <= KeyNumber(key) % 3 THEN 0
                    ELSE (KeyNumber(key) * (11 * i + 5) + 3 * i) % 256 ]

\* Keypair.fromSeed(seed): secretKey is the 32-byte seed followed by the
\* 32-byte public key.
KeypairFromSeed(key) ==
  [ publicKey |-> PublicKeyBytes(key),
    secretKey |-> KeyBytes(key) \o PublicKeyBytes(key) ]

\* generateWallet(), on the entropy its random source yields.
generateWallet(entropy) ==
  LET mnemonic       == generateMnemonic(256, entropy)
      seed           == mnemonicToSeedSync(mnemonic)
      derivationPath == "m/44'/501'/0'/0'"
      derived        == derivePath(derivationPath, toHex(seed))
      keypair        == KeypairFromSeed(derived.key)
  IN  [ publicKey |-> bs58encode(keypair.publicKey),
        secretKey |-> keypair.secretKey,
        mnemonic  |-> mnemonic ]

\* importFromMnemonic deriving at the account-level path.
importFromMnemonic_ShortPath(mnemonic) ==
  IF ~validateMnemonic(mnemonic)
  THEN [ threw |-> TRUE,
         value |-> [name |-> "Error", message |-> "Invalid mnemonic phrase"],
         steps |-> <<"validateMnemonic">> ]
  ELSE LET seed           == mnemonicToSeedSync(mnemonic)
           derivationPath == "m/44'/501'/0'"
           derived        == derivePath(derivationPath, toHex(seed))
           keypair        == KeypairFromSeed(derived.key)
       IN  [ threw |-> FALSE,
             value |-> [ publicKey |-> bs58encode(keypair.publicKey),
                         secretKey |-> keypair.secretKey ],
             steps |-> <<"validateMnemonic", "mnemonicToSeedSync",
                         "derivePath", "Keypair.fromSeed">> ]

\* importFromMnemonic(mnemonic): the outcome (a returned ImportedWallet or
\* a thrown Error) and the library calls made on the way.
importFromMnemonic(mnemonic) ==
  IF ~validateMnemonic(mnemonic)
  THEN [ threw |-> TRUE,
         value |-> [name |-> "Error", message |-> "Invalid mnemonic phrase"],
         steps |-> <<"validateMnemonic">> ]
  ELSE LET seed           == mnemonicToSeedSync(mnemonic)
           derivationPath == "m/44'/501'/0'/0'"
           derived        == derivePath(derivationPath, toHex(seed))
           keypair        == KeypairFromSeed(derived.key)
       IN  [ threw |-> FALSE,
             value |-> [ publicKey |-> bs58encode(keypair.publicKey),
                         secretKey |-> keypair.secretKey ],
             steps |-> <<"validateMnemonic", "mnemonicToSeedSync",
                         "derivePath", "Keypair.fromSeed">> ]

----------------------------------------------------------------------------
(* The inputs the functions are driven with *)

WordCounts == {11, 12, 24}

Mnemonics ==
  [ words : WordCounts, ent : Entropies, checksum : BOOLEAN, wordlist : BOOLEAN ]

\* The functions' results on these inputs, computed once: the graph of the
\* function as a set of pairs, and the lookup in it.
Lookup(graph, x) == (CHOOSE p \in graph : p[1] = x)[2]

GeneratedWalletsGraph == { <<e, generateWallet(e)>> : e \in Entropies }

GeneratedWallets == [ e \in Entropies |-> Lookup(GeneratedWalletsGraph, e) ]

ImportedWalletsGraph == { <<m, importFromMnemonic(m)>> : m \in Mnemonics }

ImportedWallets == [ m \in Mnemonics |-> Lookup(ImportedWalletsGraph, m) ]

----------------------------------------------------------------------------
(* AIONClient: requests and responses *)

API_BASE == "https://www.aionworld.cloud/api"

Alphanumeric == Base58Class \cup {"0", "I", "O", "l"}

\* encodeURIComponent: unreserved characters stay, the others become %XX.
RECURSIVE encodeURIComponent(_)
encodeURIComponent(s) ==
  IF s = <<>> THEN <<>>
  ELSE ( IF s[1] \in Alphanumeric \cup {"-", "_", ".", "!", "~", "*", "'", "(", ")"}
         THEN <<s[1]>>
         ELSE CASE s[1] = " " -> <<"%", "2", "0">>
                [] s[1] = "&" -> <<"%", "2", "6">>
                [] s[1] = "/" -> <<"%", "2", "F">>
                [] s[1] = "=" -> <<"%", "3", "D">>
                [] s[1] = "?" -> <<"%", "3", "F">> )
       \o encodeURIComponent(Tail(s))

PostJson(path, payload) ==
  [ method |-> "POST", url |-> <<API_BASE, path>>,
    headers |-> [ContentType |-> "application/json"],
    body |-> JSONstringify(payload) ]

GetUrl(url) ==
  [ method |-> "GET", url |-> url, headers |-> <<>>, body |-> <<>> ]

\* response.ok
ResponseOk(response) == response.status >= 200 /\ response.status <= 299

\* new Error(`API error: ${response.status}`)
ApiError(response) ==
  [ name |-> "Error", message |-> "API error: " \o ToString(response.status) ]

\* What response.json() rejects with on a body that is not JSON.
DecodeError == [ name |-> "SyntaxError", message |-> "Unexpected token" ]

Return(v) == [threw |-> FALSE, value |-> v]

Throw(e) == [threw |-> TRUE, value |-> e]

\* The tail every handler shares: the ok check, then await response.json().
DecodedResponse(response) ==
  IF ~ResponseOk(response) THEN Throw(ApiError(response))
  ELSE IF ~response.parses THEN Throw(DecodeError)
  ELSE Return(response.data)

----------------------------------------------------------------------------
(* AIONClient: the handlers, as functions of what they read *)

\* get walletAddress(): this.wallet?.publicKey ?? null
walletAddress(w) == IF w.t = "null" THEN JsNull ELSE JsStr(w.v.publicKey)

\* startClaim() up to its await fetch(...).
startClaimCall(user) ==
  <<PostJson("/agent", [action |-> JsStr("start_claim"), username |-> JsStr(user)])>>

\* startClaimResume storing data.claim_code before the ok check.
startClaimResume_StoreFirst(response, cc) ==
  LET decoded == DecodedResponse(response)
  IN  [ claimCode |-> Get(response.data, "claim_code"), wrote |-> TRUE,
        outcome |-> decoded ]

\* startClaimResume with an idempotency guard: a held code is kept.
startClaimResume_KeepFirst(response, cc) ==
  LET decoded == DecodedResponse(response)
  IN  IF decoded.threw
      THEN [claimCode |-> cc, wrote |-> FALSE, outcome |-> decoded]
      ELSE [claimCode |-> IF Truthy(cc) THEN cc
                          ELSE Get(decoded.value, "claim_code"),
            wrote |-> TRUE, outcome |-> decoded]

\* startClaim() from the response on: the claim-code it leaves and its outcome.
startClaimResume(response, cc) ==
  LET decoded == DecodedResponse(response)
  IN  IF decoded.threw
      THEN [claimCode |-> cc, wrote |-> FALSE, outcome |-> decoded]
      ELSE [claimCode |-> Get(decoded.value, "claim_code"), wrote |-> TRUE,
            outcome |-> decoded]

\* The template of getVerificationMessage().
VerificationMessage(cc) ==
  "Claiming my $AION tokens!\n\nVerification: " \o JsToString(cc)
    \o "\n\nwww.aionworld.cloud"

\* getVerificationMessageCall that always starts a claim first.
getVerificationMessageCall_AlwaysStart(cc, user) ==
  [returns |-> FALSE, sent |-> startClaimCall(user), value |-> ""]

\* getVerificationMessageCall testing this.claimCode === null.
getVerificationMessageCall_NullOnly(cc, user) ==
  IF cc.t = "null"
  THEN [returns |-> FALSE, sent |-> startClaimCall(user), value |-> ""]
  ELSE [returns |-> TRUE, sent |-> <<>>, value |-> VerificationMessage(cc)]

\* getVerificationMessage() up to its first await, or to its return when the
\* claim-code is held.
getVerificationMessageCall(cc, user) ==
  IF ~Truthy(cc)
  THEN [returns |-> FALSE, sent |-> startClaimCall(user), value |-> ""]
  ELSE [returns |-> TRUE, sent |-> <<>>, value |-> VerificationMessage(cc)]

\* completeClaimCall preferring the held wallet to the explicit argument.
completeClaimCall_WalletFirst(postUrl, walletAddressArg, w, user) ==
  LET address == IF Truthy(walletAddress(w)) THEN walletAddress(w)
                 ELSE walletAddressArg
      payload == [ action |-> JsStr("complete_claim"), username |-> JsStr(user),
                   post_url |-> JsStr(postUrl) ]
  IN  << PostJson("/agent",
                  IF Truthy(address) THEN Put(payload, "wallet_address", address)
                  ELSE payload) >>

\* completeClaim(postUrl, walletAddress?) up to its await fetch(...).
completeClaimCall(postUrl, walletAddressArg, w, user) ==
  LET address == IF Truthy(walletAddressArg) THEN walletAddressArg
                 ELSE walletAddress(w)
      payload == [ action |-> JsStr("complete_claim"), username |-> JsStr(user),
                   post_url |-> JsStr(postUrl) ]
  IN  << PostJson("/agent",
                  IF Truthy(address) THEN Put(payload, "wallet_address", address)
                  ELSE payload) >>

\* claim(postUrl): return this.completeClaim(postUrl)
claimCall(postUrl, w, user) == completeClaimCall(postUrl, JsUndefined, w, user)

getBugBountiesCall == << GetUrl(<<API_BASE, "/bug-bounty">>) >>

\* data.categories || []
getBugBountiesResume(response) ==
  LET decoded == DecodedResponse(response)
  IN  IF decoded.threw THEN decoded
      ELSE Return(IF Truthy(Get(decoded.value, "categories"))
                  THEN Get(decoded.value, "categories") ELSE JsArr(<<>>))

\* submitBugReportCall that never sends the wallet.
submitBugReportCall_NullWallet(params, w, user) ==
  << PostJson("/bug-bounty",
       [ username           |-> JsStr(user),
         category           |-> Get(params, "category"),
         title              |-> Get(params, "title"),
         description        |-> Get(params, "description"),
         steps_to_reproduce |-> Get(params, "stepsToReproduce"),
         expected_behavior  |-> Get(params, "expectedBehavior"),
         actual_behavior    |-> Get(params, "actualBehavior"),
         wallet_address     |-> JsNull ]) >>

\* submitBugReport(params) up to its await fetch(...).
submitBugReportCall(params, w, user) ==
  << PostJson("/bug-bounty",
       [ username           |-> JsStr(user),
         category           |-> Get(params, "category"),
         title              |-> Get(params, "title"),
         description        |-> Get(params, "description"),
         steps_to_reproduce |-> Get(params, "stepsToReproduce"),
         expected_behavior  |-> Get(params, "expectedBehavior"),
         actual_behavior    |-> Get(params, "actualBehavior"),
         wallet_address     |-> walletAddress(w) ]) >>

\* getChallenges(status = 'open')
getChallengesCall(statusArg) ==
  LET status == IF statusArg.t = "undefined" THEN "open" ELSE statusArg.v
  IN  << GetUrl(<<API_BASE, "/challenges?status=", status>>) >>

\* getChallengesResume returning data.challenges with no default.
getChallengesResume_NoDefault(response) ==
  LET decoded == DecodedResponse(response)
  IN  IF decoded.threw THEN decoded
      ELSE Return(Get(decoded.value, "challenges"))

\* data.challenges || []
getChallengesResume(response) ==
  LET decoded == DecodedResponse(response)
  IN  IF decoded.threw THEN decoded
      ELSE Return(IF Truthy(Get(decoded.value, "challenges"))
                  THEN Get(decoded.value, "challenges") ELSE JsArr(<<>>))

submitChallengeSolutionCall(params, user) ==
  << PostJson("/challenges/submit",
       [ username       |-> JsStr(user),
         challenge_slug |-> Get(params, "challengeSlug"),
         solution_url   |-> Get(params, "solutionUrl"),
         description    |-> Get(params, "description") ]) >>

getMyStatsCall(user) ==
  << GetUrl(<<API_BASE, "/agent?username=", encodeURIComponent(user)>>) >>

----------------------------------------------------------------------------
(* AIONClient: the wallet methods *)

SystemProgram == Repeat("1", 32)

NotBase58 == <<"n","o","t","-","b","a","s","e","5","8","!","!">>

\* The addresses setWalletAddress is called with: one that decodes to 32
\* bytes, one that is too short and not base58, one that decodes to 33 bytes.
TestAddresses ==
  { SystemProgram,
    NotBase58,
    Repeat("1", 33) }

\* validateAddress on these addresses, computed once.
AddressChecksGraph == { <<a, validateAddress(a)>> : a \in TestAddresses }

AddressChecks == [ a \in TestAddresses |-> Lookup(AddressChecksGraph, a) ]

\* The entropy AIONClient.generateWallet is taken to draw.
ClientEntropies == {0}

\* The phrases importWallet is called with.
ClientMnemonics ==
  { generateMnemonic(256, e) : e \in ClientEntropies }
  \cup { [words |-> 24, ent |-> 0, checksum |-> FALSE, wordlist |-> TRUE] }

\* AIONClient.generateWallet(), on the entropy drawn.
clientGenerateWallet(entropy) ==
  LET w == GeneratedWallets[entropy]
  IN  [ wallet  |-> JsObj(w),
        outcome |-> Return([publicKey |-> w.publicKey, mnemonic |-> w.mnemonic]) ]

\* clientImportWallet dropping the held wallet before it imports.
clientImportWallet_ClearFirst(mnemonic, w) ==
  LET r == ImportedWallets[mnemonic]
  IN  IF r.threw
      THEN [ wallet |-> JsNull, outcome |-> Throw(r.value) ]
      ELSE [ wallet  |-> JsObj(r.value),
             outcome |-> Return([publicKey |-> r.value.publicKey]) ]

\* AIONClient.importWallet(mnemonic): the assignment happens only if
\* importFromMnemonic returns.
clientImportWallet(mnemonic, w) ==
  LET r == ImportedWallets[mnemonic]
  IN  IF r.threw
      THEN [ wallet |-> w, outcome |-> Throw(r.value) ]
      ELSE [ wallet  |-> JsObj(r.value),
             outcome |-> Return([publicKey |-> r.value.publicKey]) ]

\* setWalletAddress storing the wallet before it validates.
setWalletAddress_StoreFirst(address, w) ==
  LET manual == JsObj([ publicKey |-> address, secretKey |-> <<>>,
                        mnemonic |-> "" ])
  IN  IF ~AddressChecks[address]
      THEN [ wallet  |-> manual,
             outcome |-> Throw([ name |-> "Error",
                                 message |-> <<"Invalid Solana address: ", address>> ]) ]
      ELSE [ wallet |-> manual, outcome |-> Return(TRUE) ]

\* setWalletAddress without the validateAddress test.
setWalletAddress_Unchecked(address, w) ==
  [ wallet  |-> JsObj([ publicKey |-> address, secretKey |-> <<>>,
                        mnemonic |-> "" ]),
    outcome |-> Return(TRUE) ]

\* AIONClient.setWalletAddress(address)
setWalletAddress(address, w) ==
  IF ~AddressChecks[address]
  THEN [ wallet  |-> w,
         outcome |-> Throw([ name |-> "Error",
                             message |-> <<"Invalid Solana address: ", address>> ]) ]
  ELSE [ wallet  |-> JsObj([ publicKey |-> address,
                             secretKey |-> <<>>,
                             mnemonic  |-> "" ]),
         outcome |-> Return(TRUE) ]

----------------------------------------------------------------------------
(* What the platform may answer and what the caller may pass *)

MaxInFlight == 2

Usernames == { <<"m","o","l","t"," ","&","1">> }

OkStatuses == {200}

ErrorStatuses == {404, 500}

NoData == <<>>

Responses(payloads) ==
  [ status : ErrorStatuses, parses : {FALSE}, data : {NoData} ]
  \cup [ status : OkStatuses, parses : {FALSE}, data : {NoData} ]
  \cup [ status : OkStatuses, parses : {TRUE}, data : payloads ]

StartClaimPayloads ==
  { [ message |-> JsStr("already claimed") ],
    [ claim_code |-> JsStr("AION-7F3K"), message |-> JsStr("post this code") ],
    [ claim_code |-> JsStr("AION-9Q2M"), message |-> JsStr("post this code") ] }

ClaimPayloads ==
  { [ success |-> TRUE, message |-> "claimed", tokenAmount |-> 1000 ],
    [ success |-> FALSE, error |-> "post not found" ] }

BountyPayloads ==
  { [ message |-> JsStr("none") ],
    [ categories |-> JsArr(<< [category |-> "security", reward |-> "5000",
                               description |-> "auth bypass"] >>) ] }

ChallengePayloads ==
  { [ message |-> JsStr("none") ],
    [ challenges |-> JsArr(<< [id |-> "1", slug |-> "agent-verification-v2",
                               status |-> "open"] >>) ] }

SubmitPayloads == { [ success |-> TRUE, message |-> "received" ] }

StatsPayloads == { [ claimed |-> FALSE ] }

PostUrls == { "https://moltbook.com/post/1" }

WalletAddressArgs == { JsUndefined, JsStr(<<>>), JsStr(NotBase58) }

BugReports ==
  { [ category |-> JsStr("security"), title |-> JsStr("t"),
      description |-> JsStr("d"), stepsToReproduce |-> JsStr("s") ] }

ChallengeSolutions ==
  { [ challengeSlug |-> JsStr("agent-verification-v2"),
      solutionUrl |-> JsStr("https://github.com/you/solution"),
      description |-> JsStr("d") ] }

ChallengeStatusArgs == { JsUndefined }

----------------------------------------------------------------------------
(* The state machine of one client *)

NoCall ==
  [ op |-> "none", args |-> <<>>, outcome |-> Return(<<>>), status |-> 0,
    data |-> NoData, requests |-> 0, wrote |-> FALSE ]

\* What a call that returns without reading a response has decoded.
NoResponse == [ status |-> 0, parses |-> FALSE, data |-> NoData ]

Init ==
  /\ username \in Usernames
  /\ wallet = JsNull
  /\ claimCode = JsNull
  /\ calls = EmptyBag
  /\ done = NoCall
  /\ lastStart = JsNull
  /\ history = <<>>

InFlight == BagToSet(calls)

\* A call that has issued the requests `sent` and awaits the response.
Call(op, sent, args) ==
  [ op |-> op, pc |-> "fetch", sent |-> sent, args |-> args, own |-> JsNull ]

\* The call suspends at its await: it joins the calls in flight.
Launch(c) ==
  /\ BagCardinality(calls) < MaxInFlight
  /\ calls' = calls (+) SetToBag({c})
  /\ done' = NoCall
  /\ UNCHANGED <<username, wallet, claimCode, lastStart, history>>

\* The call c returns or throws.
Settle(c, outcome, response, wrote) ==
  /\ calls' = calls (-) SetToBag({c})
  /\ done' = [ op |-> c.op, args |-> <<>>, outcome |-> outcome,
               status |-> response.status, data |-> response.data,
               requests |-> Len(c.sent), wrote |-> wrote ]

\* A method that runs to completion without suspending.
Sync(op, args, outcome) ==
  /\ done' = [ op |-> op, args |-> args, outcome |-> outcome, status |-> 0,
               data |-> NoData, requests |-> 0, wrote |-> FALSE ]
  /\ UNCHANGED calls

GenerateWallet ==
  \E e \in ClientEntropies :
    LET r == clientGenerateWallet(e)
    IN  /\ wallet' = r.wallet
        /\ Sync("generateWallet", <<>>, r.outcome)
        /\ UNCHANGED <<username, claimCode, lastStart, history>>

ImportWallet ==
  \E m \in ClientMnemonics :
    LET r == clientImportWallet(m, wallet)
    IN  /\ wallet' = r.wallet
        /\ Sync("importWallet", <<m>>, r.outcome)
        /\ UNCHANGED <<username, claimCode, lastStart, history>>

SetWalletAddress ==
  \E a \in TestAddresses :
    LET r == setWalletAddress(a, wallet)
    IN  /\ wallet' = r.wallet
        /\ Sync("setWalletAddress", <<a>>, r.outcome)
        /\ UNCHANGED <<username, claimCode, lastStart, history>>

StartClaim == Launch(Call("startClaim", startClaimCall(username), <<>>))

StartClaimResponse ==
  \E c \in InFlight, r \in Responses(StartClaimPayloads) :
    /\ c.op = "startClaim"
    /\ LET e == startClaimResume(r, claimCode)
       IN  /\ claimCode' = e.claimCode
           /\ lastStart' = IF e.wrote THEN JsObj(r.data) ELSE lastStart
           /\ Settle(c, e.outcome, r, e.wrote)
    /\ UNCHANGED <<username, wallet, history>>

GetVerificationMessage ==
  LET e == getVerificationMessageCall(claimCode, username)
  IN  IF e.returns
      THEN /\ done' = [ op |-> "getVerificationMessage", args |-> <<>>,
                        outcome |-> Return(e.value), status |-> 0,
                        data |-> NoData, requests |-> Len(e.sent), wrote |-> FALSE ]
           /\ UNCHANGED <<username, wallet, claimCode, calls, lastStart, history>>
      ELSE Launch(Call("getVerificationMessage", e.sent, <<>>))

\* The response to the implicit startClaim arrives: startClaim runs to its
\* return or throw, and the awaiting getVerificationMessage is scheduled.
GetVerificationMessageResponse ==
  \E c \in InFlight, r \in Responses(StartClaimPayloads) :
    /\ c.op = "getVerificationMessage" /\ c.pc = "fetch"
    /\ LET e == startClaimResume(r, claimCode)
       IN  IF e.outcome.threw
           THEN /\ Settle(c, e.outcome, r, e.wrote)
                /\ claimCode' = e.claimCode
                /\ UNCHANGED lastStart
           ELSE /\ claimCode' = e.claimCode
                /\ lastStart' = JsObj(r.data)
                /\ calls' = (calls (-) SetToBag({c}))
                              (+) SetToBag({[c EXCEPT !.pc = "resume",
                                                      !.own = e.claimCode]})
                /\ done' = NoCall
    /\ UNCHANGED <<username, wallet, history>>

\* getVerificationMessage resumes after its await and formats the message.
GetVerificationMessageContinue ==
  \E c \in InFlight :
    /\ c.op = "getVerificationMessage" /\ c.pc = "resume"
    /\ Settle(c, Return(VerificationMessage(claimCode)), NoResponse, TRUE)
    /\ UNCHANGED <<username, wallet, claimCode, lastStart, history>>

CompleteClaim ==
  \E url \in PostUrls, a \in WalletAddressArgs :
    Launch(Call("completeClaim", completeClaimCall(url, a, wallet, username),
                [postUrl |-> url, walletAddress |-> a]))

Claim ==
  \E url \in PostUrls :
    Launch(Call("claim", claimCall(url, wallet, username), [postUrl |-> url]))

\* Respond for a handler that reads the wallet again after the response and
\* fails when it is no longer the one whose address was sent.
Respond_RereadsWallet(ops, payloads) ==
  \E c \in InFlight, r \in Responses(payloads) :
    /\ c.op \in ops
    /\ Settle(c,
              IF /\ c.sent[1].method = "POST"
                 /\ "wallet_address" \in DOMAIN c.sent[1].body
                 /\ c.sent[1].body.wallet_address # walletAddress(wallet)
              THEN Throw([name |-> "Error", message |-> "wallet changed"])
              ELSE DecodedResponse(r),
              r, FALSE)
    /\ UNCHANGED <<username, wallet, claimCode, lastStart, history>>

\* Settles a call whose handler only decodes the response.
Respond(ops, payloads) ==
  \E c \in InFlight, r \in Responses(payloads) :
    /\ c.op \in ops
    /\ Settle(c, DecodedResponse(r), r, FALSE)
    /\ UNCHANGED <<username, wallet, claimCode, lastStart, history>>

CompleteClaimResponse == Respond({"completeClaim", "claim"}, ClaimPayloads)

GetBugBounties == Launch(Call("getBugBounties", getBugBountiesCall, <<>>))

GetBugBountiesResponse ==
  \E c \in InFlight, r \in Responses(BountyPayloads) :
    /\ c.op = "getBugBounties"
    /\ Settle(c, getBugBountiesResume(r), r, FALSE)
    /\ UNCHANGED <<username, wallet, claimCode, lastStart, history>>

SubmitBugReport ==
  \E params \in BugReports :
    Launch(Call("submitBugReport", submitBugReportCall(params, wallet, username),
                <<params>>))

SubmitBugReportResponse == Respond({"submitBugReport"}, SubmitPayloads)

GetChallenges ==
  \E status \in ChallengeStatusArgs :
    Launch(Call("getChallenges", getChallengesCall(status), <<status>>))

GetChallengesResponse ==
  \E c \in InFlight, r \in Responses(ChallengePayloads) :
    /\ c.op = "getChallenges"
    /\ Settle(c, getChallengesResume(r), r, FALSE)
    /\ UNCHANGED <<username, wallet, claimCode, lastStart, history>>

SubmitChallengeSolution ==
  \E params \in ChallengeSolutions :
    Launch(Call("submitChallengeSolution",
                submitChallengeSolutionCall(params, username), <<params>>))

SubmitChallengeSolutionResponse ==
  Respond({"submitChallengeSolution"}, SubmitPayloads)

GetMyStats == Launch(Call("getMyStats", getMyStatsCall(username), <<>>))

GetMyStatsResponse == Respond({"getMyStats"}, StatsPayloads)

Next ==
  \/ GenerateWallet \/ ImportWallet \/ SetWalletAddress
  \/ StartClaim \/ StartClaimResponse
  \/ GetVerificationMessage \/ GetVerificationMessageResponse
  \/ GetVerificationMessageContinue
  \/ CompleteClaim \/ Claim \/ CompleteClaimResponse
  \/ GetBugBounties \/ GetBugBountiesResponse
  \/ SubmitBugReport \/ SubmitBugReportResponse
  \/ GetChallenges \/ GetChallengesResponse
  \/ SubmitChallengeSolution \/ SubmitChallengeSolutionResponse
  \/ GetMyStats \/ GetMyStatsResponse

Spec == Init /\ [][Next]_vars

----------------------------------------------------------------------------
(* The wallet module's functions applied directly, as examples/ does *)

MaxHistory == 2

FillBytes == {1, 58, 255}

\* Byte arrays of 31, 32 and 33 bytes: a run of zero bytes, then one value.
ByteProbes ==
  { Repeat(0, z) \o Repeat(f, n - z) :
      n \in {AddressBytes - 1, AddressBytes, AddressBytes + 1},
      z \in 0..(AddressBytes + 1), f \in FillBytes }
  \cup { [ i \in 1..AddressBytes |-> (k * i) % 256 ] : k \in {7, 37, 101} }

ProbeLengths == (MinAddressLength - 2)..(MaxAddressLength + 2)

\* Strings of one repeated character around the length limits, the system
\* program address with one character replaced, and the test addresses.
AddressProbes ==
  { Repeat(c, n) : n \in ProbeLengths, c \in {"1", "2", "z", "0", "l", "I", "O", "!"} }
  \cup { [SystemProgram EXCEPT ![i] = c] :
           i \in {1, MinAddressLength}, c \in {"2", "0", "O", "I", "l", " "} }
  \cup TestAddresses
  \cup { <<"I","n","v","a","l","i","d","A","d","d","r","e","s","s","1","2","3">> }

ProbeValidateAddress ==
  /\ history = <<>>
  /\ \E a \in AddressProbes :
       history' = << [fn |-> "validateAddress", arg |-> a,
                      ret |-> validateAddressCall(a)] >>
  /\ UNCHANGED clientVars

\* publicKey.toBase58() on the bytes of a key.
ProbeToBase58 ==
  /\ history = <<>>
  /\ \E b \in ByteProbes :
       history' = << [fn |-> "toBase58", arg |-> b, ret |-> bs58encode(b)] >>
  /\ UNCHANGED clientVars

\* validateAddress on the string toBase58 returned.
ProbeValidateEncoded ==
  /\ Len(history) = 1 /\ history[1].fn = "toBase58"
  /\ history' = Append(history, [fn |-> "validateAddress", arg |-> history[1].ret,
                                 ret |-> validateAddressCall(history[1].ret)])
  /\ UNCHANGED clientVars

AddrNext == ProbeValidateAddress \/ ProbeToBase58 \/ ProbeValidateEncoded

AddrSpec == Init /\ [][AddrNext]_vars

ProbeGenerateWallet ==
  /\ Len(history) < MaxHistory
  /\ \E e \in Entropies :
       history' = Append(history, [fn |-> "generateWallet", arg |-> e,
                                   ret |-> GeneratedWallets[e]])
  /\ UNCHANGED clientVars

ProbeImportFromMnemonic ==
  /\ Len(history) < MaxHistory
  /\ \E m \in Mnemonics :
       history' = Append(history, [fn |-> "importFromMnemonic", arg |-> m,
                                   ret |-> ImportedWallets[m]])
  /\ UNCHANGED clientVars

KeyNext == ProbeGenerateWallet \/ ProbeImportFromMnemonic

KeySpec == Init /\ [][KeyNext]_vars

----------------------------------------------------------------------------
(* Claims about the wallet module *)

ValidateProbes ==
  { i \in 1..Len(history) : history[i].fn = "validateAddress" }

\* C7: validateAddress never throws and returns true exactly when the string
\* has 32 to 44 characters, all of them in the base58 alphabet (which has no
\* 0, I, O, l), and base58-decodes to exactly 32 bytes; so the base58
\* encoding of any 32-byte array validates, and a string of another length or
\* with a character outside the alphabet does not.
C7_ValidateAddressExact ==
  /\ \A i \in ValidateProbes :
       LET a == history[i].arg
           inLength   == Len(a) >= 32 /\ Len(a) <= 44
           inAlphabet == \A k \in 1..Len(a) :
                           /\ a[k] \in Range(ALPHABET)
                           /\ a[k] \notin {"0", "I", "O", "l"}
       IN  /\ ~history[i].ret.threw
           /\ history[i].ret.value \in BOOLEAN
           /\ history[i].ret.value =
                (inLength /\ inAlphabet /\ Len(bs58decode(a).bytes) = 32)
           /\ (~inLength \/ ~inAlphabet) => history[i].ret.value = FALSE
  /\ ( /\ Len(history) = 2
       /\ history[1].fn = "toBase58"
       /\ Len(history[1].arg) = 32 )
     => history[2].ret.value = TRUE

\* A 32-byte key whose encoding has the full 44 characters was validated.
C7_Witness ==
  /\ Len(history) = 2
  /\ history[1].fn = "toBase58"
  /\ Len(history[1].arg) = 32
  /\ Len(history[2].arg) = 44
  /\ history[2].ret.value = TRUE

\* C9: key derivation is deterministic: two imports of the same valid phrase
\* return the same public and secret keys, and importing the phrase that
\* generateWallet returned yields the public key generateWallet returned.
C9_DerivationDeterministic ==
  \A i, j \in 1..Len(history) :
    i < j =>
      /\ ( /\ history[i].fn = "importFromMnemonic"
           /\ history[j].fn = "importFromMnemonic"
           /\ history[i].arg = history[j].arg
           /\ validateMnemonic(history[i].arg) )
         => /\ ~history[i].ret.threw /\ ~history[j].ret.threw
            /\ history[i].ret.value.publicKey = history[j].ret.value.publicKey
            /\ history[i].ret.value.secretKey = history[j].ret.value.secretKey
      /\ ( /\ history[i].fn = "generateWallet"
           /\ history[j].fn = "importFromMnemonic"
           /\ history[j].arg = history[i].ret.mnemonic )
         => /\ ~history[j].ret.threw
            /\ history[j].ret.value.publicKey = history[i].ret.publicKey

\* A wallet was generated and its phrase imported.
C9_Witness ==
  /\ Len(history) = 2
  /\ history[1].fn = "generateWallet"
  /\ history[2].fn = "importFromMnemonic"
  /\ history[2].arg = history[1].ret.mnemonic
  /\ ~history[2].ret.threw

----------------------------------------------------------------------------
(* Claims about AIONClient *)

NetworkOps ==
  { "startClaim", "completeClaim", "claim", "getVerificationMessage",
    "getBugBounties", "submitBugReport", "getChallenges",
    "submitChallengeSolution", "getMyStats" }

\* The call c joins the calls in flight in this step.
Added(c) == CopiesIn(c, calls') > CopiesIn(c, calls)

\* The step settles a call on a response whose status is not 2xx.
NonSuccessResponse(d) == d.status # 0 /\ ~(d.status >= 200 /\ d.status <= 299)

\* C1: a call whose response has a non-2xx status fails with the error that
\* carries exactly that status, and neither that step nor any earlier step of
\* the call has assigned the claim-code or the wallet.
C1_ApiErrorLeavesState ==
  [][ NonSuccessResponse(done') =>
        /\ done'.op \in NetworkOps
        /\ done'.outcome.threw
        /\ done'.outcome.value.name = "Error"
        /\ done'.outcome.value.message = "API error: " \o ToString(done'.status)
        /\ ~done'.wrote
        /\ claimCode' = claimCode
        /\ wallet' = wallet ]_vars

\* startClaim has failed on a 500 while a claim-code and a wallet were held.
C1_Witness ==
  /\ done.op = "startClaim"
  /\ done.status = 500
  /\ done.outcome.threw
  /\ claimCode = JsStr("AION-7F3K")
  /\ wallet.t = "object"

\* The latest successful start-claim returned a claim code.
HasCode(ls) ==
  /\ ls.t = "object"
  /\ "claim_code" \in DOMAIN ls.v
  /\ ls.v.claim_code.t = "string"
  /\ Len(ls.v.claim_code.v) > 0

\* getVerificationMessage() is called in this step: it returns at once, or it
\* suspends on its implicit startClaim.
GetVerificationMessageCalled ==
  \/ done'.op = "getVerificationMessage" /\ calls' = calls
  \/ \E c \in BagToSet(calls') :
       c.op = "getVerificationMessage" /\ c.pc = "fetch" /\ Added(c)

\* C2: when the latest successful startClaim returned the code c, a call of
\* getVerificationMessage issues no request and returns the fixed template
\* with c in it.
C2_MessageAfterStartClaim ==
  [][ (GetVerificationMessageCalled /\ HasCode(lastStart)) =>
        /\ calls' = calls
        /\ done'.op = "getVerificationMessage"
        /\ done'.requests = 0
        /\ done'.outcome =
             Return("Claiming my $AION tokens!" \o "\n\n" \o "Verification: "
                      \o lastStart.v.claim_code.v \o "\n\n" \o "www.aionworld.cloud")
    ]_vars

\* The message with the second code was returned without a request.
C2_Witness ==
  /\ done.op = "getVerificationMessage"
  /\ done.requests = 0
  /\ HasCode(lastStart)
  /\ lastStart.v.claim_code.v = "AION-9Q2M"
  /\ done.outcome.value =
       "Claiming my $AION tokens!\n\nVerification: AION-9Q2M\n\nwww.aionworld.cloud"

NoCodeHeld(cc) ==
  cc.t \in {"null", "undefined"} \/ (cc.t = "string" /\ Len(cc.v) = 0)

ExpectedStartClaimRequest ==
  [ method |-> "POST",
    url |-> <<"https://www.aionworld.cloud/api", "/agent">>,
    headers |-> [ContentType |-> "application/json"],
    body |-> [action |-> JsStr("start_claim"), username |-> JsStr(username)] ]

\* C3: getVerificationMessage called with no claim-code held issues exactly
\* one start-claim request (POST /agent, action start_claim, the client's
\* username) before it formats the message; called with a claim-code held it
\* issues none.
C3_ImplicitStartClaim ==
  [][ /\ GetVerificationMessageCalled =>
           IF NoCodeHeld(claimCode)
           THEN /\ done'.op = "none"
                /\ \E c \in BagToSet(calls') :
                     /\ Added(c)
                     /\ c.op = "getVerificationMessage"
                     /\ c.sent = <<ExpectedStartClaimRequest>>
           ELSE /\ calls' = calls
                /\ done'.op = "getVerificationMessage"
                /\ done'.requests = 0
      /\ (done'.op = "getVerificationMessage" /\ calls' # calls)
           => done'.requests = 1
    ]_vars

\* A message was formatted after the one implicit request.
C3_Witness ==
  /\ done.op = "getVerificationMessage"
  /\ done.requests = 1
  /\ ~done.outcome.threw

\* C4: startClaim has no idempotency guard: every call issues its own
\* start-claim request, whatever is held or in flight, and after a successful
\* one the stored claim-code is the code of the latest successful response.
C4_StartClaimOverwrites ==
  /\ \A c \in InFlight :
       c.op = "startClaim" => c.sent = <<ExpectedStartClaimRequest>>
  /\ done.op = "startClaim" => done.requests = 1
  /\ lastStart.t = "object" => claimCode = Get(lastStart.v, "claim_code")

\* Two startClaim calls are in flight, each with its request, while the client
\* holds the code of an earlier one.
C4_Witness ==
  /\ \E c \in InFlight : c.op = "startClaim" /\ CopiesIn(c, calls) = 2
  /\ claimCode = JsStr("AION-9Q2M")

\* An explicit wallet address was given.
Given(arg) == arg.t = "string" /\ Len(arg.v) > 0

ExpectedClaimBody(postUrl, arg, w) ==
  LET base == [ action |-> JsStr("complete_claim"), username |-> JsStr(username),
                post_url |-> JsStr(postUrl) ]
  IN  IF Given(arg) THEN Put(base, "wallet_address", arg)
      ELSE IF w.t = "object"
           THEN Put(base, "wallet_address", JsStr(w.v.publicKey))
           ELSE base

\* C5: completeClaim sends as wallet_address the explicit argument when one
\* is given (a non-empty string), otherwise the public key of the wallet held
\* at the call, otherwise no wallet_address member at all; claim(postUrl)
\* sends what completeClaim(postUrl) without an explicit address sends.
C5_WalletAddressResolution ==
  [][ \A c \in BagToSet(calls') :
        (c.op \in {"completeClaim", "claim"} /\ Added(c)) =>
          /\ c.op = "completeClaim" =>
               /\ Len(c.sent) = 1
               /\ c.sent[1].method = "POST"
               /\ c.sent[1].url = <<"https://www.aionworld.cloud/api", "/agent">>
               /\ c.sent[1].body =
                    ExpectedClaimBody(c.args.postUrl, c.args.walletAddress, wallet)
          /\ c.op = "claim" =>
               /\ Len(c.sent) = 1
               /\ c.sent[1].method = "POST"
               /\ c.sent[1].url = <<"https://www.aionworld.cloud/api", "/agent">>
               /\ c.sent[1].body =
                    ExpectedClaimBody(c.args.postUrl, JsUndefined, wallet)
    ]_vars

\* completeClaim with an explicit address is in flight on a client that
\* holds a wallet, and so is a claim that sent the wallet's public key.
C5_Witness ==
  /\ wallet.t = "object"
  /\ \E c \in InFlight :
       /\ c.op = "completeClaim"
       /\ c.args.walletAddress = JsStr(NotBase58)
       /\ c.sent[1].body.wallet_address = JsStr(NotBase58)
  /\ \E c \in InFlight :
       /\ c.op = "claim"
       /\ "wallet_address" \in DOMAIN c.sent[1].body
       /\ c.sent[1].body.wallet_address = JsStr(wallet.v.publicKey)

\* C6: setWalletAddress on an address that validateAddress rejects throws the
\* error that names the address and leaves the held wallet as it was; on one
\* it accepts, the wallet becomes the manual wallet of that address with an
\* empty secret key and an empty mnemonic.
C6_SetWalletAddress ==
  [][ done'.op = "setWalletAddress" =>
        LET address == done'.args[1]
        IN  IF ~AddressChecks[address]
            THEN /\ done'.outcome.threw
                 /\ done'.outcome.value.message =
                      <<"Invalid Solana address: ", address>>
                 /\ wallet' = wallet
            ELSE /\ done'.outcome = Return(TRUE)
                 /\ wallet' = JsObj([ publicKey |-> address, secretKey |-> <<>>,
                                      mnemonic |-> "" ])
    ]_vars

\* An address that decodes to 33 bytes was refused while a generated wallet
\* was held.
C6_Witness ==
  /\ done.op = "setWalletAddress"
  /\ done.args[1] = Repeat("1", 33)
  /\ done.outcome.threw
  /\ wallet.t = "object"
  /\ Len(wallet.v.secretKey) = 64

\* A successful start-claim takes effect in this step, called directly or by
\* getVerificationMessage.
StartClaimSucceeded ==
  \/ done'.op = "startClaim" /\ ~done'.outcome.threw /\ calls' # calls
  \/ \E c \in BagToSet(calls') :
       c.op = "getVerificationMessage" /\ c.pc = "resume" /\ Added(c)

\* C8, as claimed: the claim-code changes only in a successful start-claim,
\* and once a claim-code is held the client never goes back to holding none.
C8_ClaimCodeOnlySetNeverCleared ==
  [][ /\ claimCode' # claimCode => StartClaimSucceeded
      /\ ~NoCodeHeld(claimCode) => ~NoCodeHeld(claimCode') ]_vars

\* C10: importFromMnemonic on a phrase that fails validation throws the
\* invalid-phrase error before any seed or key derivation and returns no
\* wallet; importWallet on such a phrase leaves the held wallet as it was.
C10_InvalidMnemonicRejected ==
  [][ (done'.op = "importWallet" /\ ~validateMnemonic(done'.args[1])) =>
        /\ ImportedWallets[done'.args[1]].threw
        /\ ImportedWallets[done'.args[1]].steps = <<"validateMnemonic">>
        /\ ImportedWallets[done'.args[1]].value =
             [name |-> "Error", message |-> "Invalid mnemonic phrase"]
        /\ done'.outcome = Throw(ImportedWallets[done'.args[1]].value)
        /\ wallet' = wallet
    ]_vars

\* A phrase with a bad checksum was refused while a wallet was held.
C10_Witness ==
  /\ done.op = "importWallet"
  /\ ~done.args[1].checksum
  /\ done.outcome.threw
  /\ wallet.t = "object"

\* The settled call decoded the JSON payload of a 2xx response.
DecodedPayload(d) ==
  /\ d.status >= 200 /\ d.status <= 299
  /\ DOMAIN d.data # {}

\* C11: after a 2xx response whose payload decodes, getBugBounties returns
\* the payload's categories array and getChallenges its challenges array, and
\* each returns the empty array, not an error, when the payload has no such
\* member.
C11_ListsDefaultToEmpty ==
  /\ (done.op = "getBugBounties" /\ DecodedPayload(done)) =>
        done.outcome = Return(IF "categories" \in DOMAIN done.data
                              THEN done.data.categories ELSE JsArr(<<>>))
  /\ (done.op = "getChallenges" /\ DecodedPayload(done)) =>
        done.outcome = Return(IF "challenges" \in DOMAIN done.data
                              THEN done.data.challenges ELSE JsArr(<<>>))

\* getChallenges got a 2xx payload without challenges and returned [].
C11_Witness ==
  /\ done.op = "getChallenges"
  /\ DecodedPayload(done)
  /\ "challenges" \notin DOMAIN done.data
  /\ done.outcome = Return(JsArr(<<>>))

\* C12: the request of submitBugReport carries the username given at
\* construction and, when a wallet is held at the call, that wallet's public
\* key as wallet_address; when none is held it carries no address (the
\* member is null).
C12_BugReportWalletAddress ==
  [][ \A c \in BagToSet(calls') :
        (c.op = "submitBugReport" /\ Added(c)) =>
          /\ Len(c.sent) = 1
          /\ c.sent[1].method = "POST"
          /\ c.sent[1].url = <<"https://www.aionworld.cloud/api", "/bug-bounty">>
          /\ c.sent[1].body.username = JsStr(username)
          /\ IF wallet.t = "object"
             THEN /\ "wallet_address" \in DOMAIN c.sent[1].body
                  /\ c.sent[1].body.wallet_address = JsStr(wallet.v.publicKey)
             ELSE Get(c.sent[1].body, "wallet_address").t \in {"null", "undefined"}
    ]_vars

\* One report sent before a wallet was held and one sent with the manual
\* wallet held are in flight.
C12_Witness ==
  /\ wallet.t = "object"
  /\ \E c \in InFlight :
       /\ c.op = "submitBugReport"
       /\ c.sent[1].body.wallet_address = JsStr(SystemProgram)
  /\ \E c \in InFlight :
       /\ c.op = "submitBugReport"
       /\ c.sent[1].body.wallet_address = JsNull

\* The non-empty claim codes the platform returns in start-claim payloads.
PlatformCodes ==
  { p.claim_code.v : p \in { q \in StartClaimPayloads :
                               /\ "claim_code" \in DOMAIN q
                               /\ q.claim_code.t = "string"
                               /\ Len(q.claim_code.v) > 0 } }

\* C13, as claimed: every message getVerificationMessage returns is the
\* template around a code the platform returned, never around an absent
\* (null, undefined, empty) one.
C13_MessageEmbedsReturnedCode ==
  (done.op = "getVerificationMessage" /\ ~done.outcome.threw) =>
    \E code \in PlatformCodes :
      done.outcome.value =
        "Claiming my $AION tokens!\n\nVerification: " \o code
          \o "\n\nwww.aionworld.cloud"

\* The call c leaves the calls in flight in this step.
Removed(c) == CopiesIn(c, calls') < CopiesIn(c, calls)

\* C14, as claimed: a getVerificationMessage that performed its implicit
\* startClaim returns the template around the code of its own start-claim
\* response, whatever other calls settle in between.
C14_MessageEmbedsOwnCode ==
  [][ \A c \in BagToSet(calls) :
        ( /\ c.op = "getVerificationMessage" /\ c.pc = "resume"
          /\ Removed(c)
          /\ ~NoCodeHeld(c.own) ) =>
          done'.outcome =
            Return("Claiming my $AION tokens!\n\nVerification: " \o c.own.v
                     \o "\n\nwww.aionworld.cloud")
    ]_vars

WalletReaders == {"completeClaim", "claim", "submitBugReport"}

\* What a call that only decodes its response returns or throws, as a
\* function of the response alone.
ResultOfResponse(d) ==
  IF NonSuccessResponse(d)
  THEN [ threw |-> TRUE,
         value |-> [ name |-> "Error",
                     message |-> "API error: " \o ToString(d.status) ] ]
  ELSE IF DOMAIN d.data = {}
       THEN [ threw |-> TRUE,
              value |-> [ name |-> "SyntaxError", message |-> "Unexpected token" ] ]
       ELSE [ threw |-> FALSE, value |-> d.data ]

\* The step assigns this.wallet a wallet of another key, or a first wallet.
WalletReplaced ==
  \/ wallet'.t # wallet.t
  \/ /\ wallet.t = "object"
     /\ \/ wallet'.v.publicKey # wallet.v.publicKey
        \/ wallet'.v.secretKey # wallet.v.secretKey

\* C15: completeClaim, claim and submitBugReport read the wallet when they
\* are called: the wallet_address of the request is that of the wallet held
\* at the call, a step that changes the wallet leaves every request in flight
\* as it was sent, and the result of the call is that of its response alone.
C15_WalletReadAtCall ==
  [][ /\ \A c \in BagToSet(calls') :
           (c.op \in WalletReaders /\ Added(c)
              /\ ~(c.op = "completeClaim" /\ Given(c.args.walletAddress))) =>
             IF wallet.t = "object"
             THEN Get(c.sent[1].body, "wallet_address") = JsStr(wallet.v.publicKey)
             ELSE Get(c.sent[1].body, "wallet_address").t \in {"null", "undefined"}
      /\ WalletReplaced =>
           \A c \in BagToSet(calls) :
             c.op \in WalletReaders => CopiesIn(c, calls') = CopiesIn(c, calls)
      /\ (done'.op \in WalletReaders /\ calls' # calls) =>
           done'.outcome = ResultOfResponse(done')
    ]_vars

\* After the wallet was replaced by a manual one, a completeClaim has settled
\* successfully and a bug report sent with the earlier wallet's key is still
\* in flight.
C15_Witness ==
  /\ done.op = "completeClaim"
  /\ ~done.outcome.threw
  /\ wallet.t = "object"
  /\ wallet.v.publicKey = SystemProgram
  /\ \E c \in InFlight :
       /\ c.op = "submitBugReport"
       /\ c.sent[1].body.wallet_address.t = "string"
       /\ c.sent[1].body.wallet_address.v # SystemProgram

\* validateAddress on every public key a client wallet of the model can
\* have, computed once.
WalletKeyChecks ==
  { <<a, validateAddress(a)>> :
      a \in TestAddresses
            \cup { GeneratedWallets[e].publicKey : e \in ClientEntropies }
            \cup { ImportedWallets[m].value.publicKey :
                     m \in { x \in ClientMnemonics : validateMnemonic(x) } } }

\* walletAddress is null, or a string that validateAddress accepts.
WalletAddressNullOrValid(w) ==
  \/ w.t = "null"
  \/ /\ w.t = "object"
     /\ \E p \in WalletKeyChecks : p[1] = w.v.publicKey /\ p[2]

\* C16: after every step walletAddress is null or a string for which
\* validateAddress is true, and once a wallet is held walletAddress never
\* is null again.
C16_WalletAddressValid ==
  [][ /\ WalletAddressNullOrValid(wallet')
      /\ wallet.t = "object" => wallet'.t = "object" ]_vars

\* A setWalletAddress has failed on a client that keeps its manual wallet.
C16_Witness ==
  /\ done.op = "setWalletAddress"
  /\ done.outcome.threw
  /\ wallet.t = "object"
  /\ wallet.v.publicKey = SystemProgram
  /\ WalletAddressNullOrValid(wallet)

====
